---- MODULE Spec2Model ----
(***************************************************************************)
(* A model of aorun/layers.py: the ProbabilisticDense layer (Bayes by      *)
(* backprop), the base Layer, the Recurrent layer, and the Model /         *)
(* variational loss that read the layers' retained samples.                *)
(*                                                                         *)
(* A tensor is modelled by its shape and one representative entry: every   *)
(* operation of the code on tensors is elementwise or a matrix product,    *)
(* so all entries are treated alike.  A missing attribute (AttributeError  *)
(* on read) is a record with def = FALSE.                                  *)
(***************************************************************************)
EXTENDS Integers, Sequences, FiniteSets, TLC

\* ---------------------------------------------------------------- bounds
MaxDim == 2
MaxUnits == 2
MaxBatch == 2
MaxLayers == 2
MaxHist == 4

\* ------------------------------------------------- python values: dims
\* A value passed as input_dim: an int, None, or a non-integer (a float
\* such as 2.5).
IntDim(n) == [tag |-> "int", n |-> n]
NoneDim == [tag |-> "None", n |-> 0]
FloatDim == [tag |-> "float", n |-> 0]
UnsetDim == [tag |-> "unset", n |-> 0]
IsInt(d) == d.tag = "int"
\* python truthiness, as in `if self.input_dim:`
Truthy(d) == (d.tag = "int" /\ d.n # 0) \/ d.tag = "float"

\* --------------------------------------------------- float32 arithmetic
\* log2(e) as a fraction, and the binary exponents at which a float32
\* rounds to zero and overflows to inf.
Log2eNum == 14427
Log2eDen == 10000
F32ZeroBelowExp2 == -150
F32InfFromExp2 == 128

\* torch.exp on a float32 entry: the result's class and its binary exponent.
F32Exp(rho) ==
    LET e == (rho * Log2eNum) \div Log2eDen
    IN  IF e < F32ZeroBelowExp2 THEN [cls |-> "zero", lg |-> 0]
        ELSE IF e >= F32InfFromExp2 THEN [cls |-> "inf", lg |-> 0]
        ELSE [cls |-> "pos", lg |-> e]

\* torch.log1p on a non-negative float32 entry: log1p(0) = 0,
\* log1p(inf) = inf, and log1p(x) > 0 for x > 0 (log1p(x) rounds to x for
\* tiny x, it does not underflow further).
F32Log1p(x) == x.cls

\* softplus as the code writes it: torch.log1p(torch.exp(rho)).
Softplus(rho) == [cls |-> F32Log1p(F32Exp(rho)), of |-> rho]

\* ------------------------------------------------------ value domains
MuVals == {0, 1}
RhoUnderflow == -104
RhoVals == {RhoUnderflow, 0}
EpsVals == {-1, 1}
\* The values an initializer or an optimizer step gives the four parameters;
\* the weight's and the bias's differ, so that the two roles are told apart.
ParamVals ==
    {v \in [W_mu : MuVals, W_rho : RhoVals, b_mu : MuVals, b_rho : RhoVals] :
        v.W_mu # v.b_mu /\ v.W_rho # v.b_rho}
\* The noise drawn for the weight and for the bias in one forward call.
EpsPairs == {e \in [W : EpsVals, b : EpsVals] : e.W # e.b}

\* ---------------------------------------------------------------- tensors
Param(role, shape, val) == [role |-> role, shape |-> shape, val |-> val]
NoParam == [role |-> "", shape |-> <<>>, val |-> 0]
NoSample ==
    [def |-> FALSE, shape |-> <<>>, mu |-> 0,
     sigma |-> [cls |-> "zero", of |-> 0], eps |-> 0]

\* mu + softplus(rho) * eps on tensors of one shape.
Reparam(mu, rho, eps) ==
    [def |-> TRUE, shape |-> mu.shape, mu |-> mu.val,
     sigma |-> Softplus(rho.val), eps |-> eps]

NoOut == [shape |-> <<>>, W |-> NoSample, b |-> NoSample]
Input(shape) == [shape |-> shape, W |-> NoSample, b |-> NoSample]

\* -------------------------------------------------------------- initializer
\* init(shape, fan_in, fan_out): the default scheme scales by
\* sqrt(c / (fan_in + fan_out)) and allocates a tensor of `shape`, so it
\* raises unless fan_in and fan_out are ints.
InitRaises(fan_in, fan_out) == ~(IsInt(fan_in) /\ IsInt(fan_out))

\* ------------------------------------------------------------ the layers
\* Layer.__init__ for a ProbabilisticDense before its `if self.input_dim`.
PDFields(units, input_dim) ==
    [kind |-> "ProbabilisticDense", units |-> units,
     output_dim |-> IntDim(units), input_dim |-> input_dim, built |-> FALSE,
     W_mu |-> NoParam, W_rho |-> NoParam, b_mu |-> NoParam, b_rho |-> NoParam,
     W |-> NoSample, b |-> NoSample]

\* The base Layer: no output_dim until build, no parameters.
LayerNew(input_dim) ==
    [kind |-> "Layer", units |-> 0,
     output_dim |-> UnsetDim, input_dim |-> input_dim, built |-> FALSE,
     W_mu |-> NoParam, W_rho |-> NoParam, b_mu |-> NoParam, b_rho |-> NoParam,
     W |-> NoSample, b |-> NoSample]

\* ProbabilisticDense.build(input_dim); v holds the values the initializer
\* draws.  self.input_dim is assigned first; the four init calls follow, the
\* first of which raises on a fan_in that is no int.
\* Variant: build that accepts any input_dim, taking width 1 for a non-int.
PDBuild_DefaultOnBadDim(l, d, v) ==
    LET l1 == [l EXCEPT !.input_dim = d]
        w == IF IsInt(d) THEN d.n ELSE 1
    IN  [ok |-> TRUE,
         layer |-> [l1 EXCEPT
             !.built = TRUE,
             !.W_mu = Param("W_mu", <<w, l.output_dim.n>>, v.W_mu),
             !.W_rho = Param("W_rho", <<w, l.output_dim.n>>, v.W_rho),
             !.b_mu = Param("b_mu", <<l.output_dim.n>>, v.b_mu),
             !.b_rho = Param("b_rho", <<l.output_dim.n>>, v.b_rho)]]
PDBuild(l, d, v) ==
    LET l1 == [l EXCEPT !.input_dim = d]
    IN  IF InitRaises(d, l.output_dim) THEN [ok |-> FALSE, layer |-> l1]
        ELSE [ok |-> TRUE,
              layer |-> [l1 EXCEPT
                  !.built = TRUE,
                  !.W_mu = Param("W_mu", <<d.n, l.output_dim.n>>, v.W_mu),
                  !.W_rho = Param("W_rho", <<d.n, l.output_dim.n>>, v.W_rho),
                  !.b_mu = Param("b_mu", <<l.output_dim.n>>, v.b_mu),
                  !.b_rho = Param("b_rho", <<l.output_dim.n>>, v.b_rho)]]

\* Layer.build(input_dim): only records the output width.
LayerBuild(l, d) == [ok |-> TRUE, layer |-> [l EXCEPT !.output_dim = d]]

Build(l, d, v) ==
    IF l.kind = "ProbabilisticDense" THEN PDBuild(l, d, v) ELSE LayerBuild(l, d)

\* ProbabilisticDense(units, input_dim=...): builds when input_dim is truthy.
\* A constructor whose build raises yields no layer, so it is only applied
\* to None and to ints.
PDNew(units, input_dim, v) ==
    IF Truthy(input_dim) THEN PDBuild(PDFields(units, input_dim), input_dim, v).layer
    ELSE PDFields(units, input_dim)

\* ProbabilisticDense.params
\* Variant: the tuple in the order (W_mu, b_mu, W_rho, b_rho).
PDParams_Swapped(l) ==
    IF ~l.built THEN [ok |-> FALSE, params |-> <<>>]
    ELSE [ok |-> TRUE, params |-> <<l.W_mu, l.b_mu, l.W_rho, l.b_rho>>]
PDParams(l) ==
    IF ~l.built THEN [ok |-> FALSE, params |-> <<>>]
    ELSE [ok |-> TRUE, params |-> <<l.W_mu, l.W_rho, l.b_mu, l.b_rho>>]

\* Layer.params
LayerParams(l) == [ok |-> TRUE, params |-> <<>>]

Params(l) == IF l.kind = "ProbabilisticDense" THEN PDParams(l) ELSE LayerParams(l)

\* Whether two shapes of one rank broadcast against each other.
Broadcastable(s1, s2) ==
    /\ Len(s1) = Len(s2)
    /\ \A k \in 1..Len(s1) : s1[k] = s2[k] \/ s1[k] = 1 \/ s2[k] = 1

\* X @ W: the shape of the product, <<>> when the shapes do not agree.
\* Variant: a product that keeps the inner width.
MatMulShape_KeepsInner(xs, ws) ==
    IF Len(xs) = 2 /\ Len(ws) = 2 /\ xs[2] = ws[1] THEN <<xs[1], xs[2]>> ELSE <<>>
MatMulShape(xs, ws) ==
    IF Len(xs) = 2 /\ Len(ws) = 2 /\ xs[2] = ws[1] THEN <<xs[1], ws[2]>> ELSE <<>>

\* self.W = W = ... and self.b = b = ...: the slot is overwritten.
\* Variant: W bound to the local only, self.W not assigned.
StoreW_LocalOnly(l, W) == l
\* Variant: the new sample added onto the retained one.
StoreW_Accumulate(l, W) == [l EXCEPT !.W = [W EXCEPT !.mu = W.mu + l.W.mu]]
StoreW(l, W) == [l EXCEPT !.W = W]
Storeb(l, b) == [l EXCEPT !.b = b]

\* ProbabilisticDense.forward(X) with the noise draws eW, eb.
\* Variant: a layer without parameters returns its input, as Layer.forward does.
PDForward_PassThroughUnbuilt(l, X, eW, eb) ==
    IF ~l.built THEN [ok |-> TRUE, layer |-> l, out |-> X, sampled |-> FALSE]
    ELSE [ok |-> FALSE, layer |-> l, out |-> NoOut, sampled |-> FALSE]
PDForward(l, X, eW, eb) ==
    IF ~IsInt(l.input_dim)
    THEN \* torch.zeros(self.input_dim, self.output_dim) raises
         [ok |-> FALSE, layer |-> l, out |-> NoOut, sampled |-> FALSE]
    ELSE IF ~l.built
    THEN \* self.W_mu: no such attribute
         [ok |-> FALSE, layer |-> l, out |-> NoOut, sampled |-> FALSE]
    ELSE IF ~Broadcastable(l.W_mu.shape, <<l.input_dim.n, l.output_dim.n>>)
    THEN \* W_mu + ... * W_eps: shapes do not broadcast
         [ok |-> FALSE, layer |-> l, out |-> NoOut, sampled |-> FALSE]
    ELSE LET W == Reparam(l.W_mu, l.W_rho, eW)
             b == Reparam(l.b_mu, l.b_rho, eb)
             l2 == Storeb(StoreW(l, W), b)
             XW == MatMulShape(X.shape, W.shape)
         IN  IF XW = <<>>
             THEN \* X @ W raises, after both slots were written
                  [ok |-> FALSE, layer |-> l2,
                   out |-> [shape |-> <<>>, W |-> W, b |-> b], sampled |-> TRUE]
             ELSE \* XW + b.expand_as(XW)
                  [ok |-> TRUE, layer |-> l2,
                   out |-> [shape |-> XW, W |-> W, b |-> b], sampled |-> TRUE]

\* Layer.forward(X): the input, converted.
LayerForward(l, X) ==
    [ok |-> TRUE, layer |-> l, out |-> Input(X.shape), sampled |-> FALSE]

Forward(l, X, eW, eb) ==
    IF l.kind = "ProbabilisticDense" THEN PDForward(l, X, eW, eb)
    ELSE LayerForward(l, X)

\* ------------------------------------------------------ Model and the loss
\* Model(*layers): every layer that its constructor did not build is built
\* with the output width of the layer before it (the first with its own
\* input_dim), as the two-layer model of test_variational_loss needs.
RECURSIVE ModelBuild(_, _, _, _)
ModelBuild(ls, i, d, v) ==
    IF i > Len(ls) THEN ls
    ELSE LET l == IF ls[i].built \/ ~IsInt(d) THEN ls[i]
                  ELSE Build(ls[i], d, v[i]).layer
         IN  ModelBuild([ls EXCEPT ![i] = l], i + 1, l.output_dim, v)

ModelNew(ls, v) ==
    IF Len(ls) = 0 THEN ls ELSE ModelBuild(ls, 1, ls[1].input_dim, v)

NoUse == [W |-> NoSample, b |-> NoSample]

\* Model.forward(X): each layer's forward in order, the output of one the
\* input of the next; a layer that raises ends the call.  us records, per
\* layer, the samples its most recent forward computed.
RECURSIVE ModelForward(_, _, _, _, _)
ModelForward(ls, us, i, X, eps) ==
    IF i > Len(ls) THEN [ok |-> TRUE, layers |-> ls, used |-> us, out |-> X]
    ELSE LET r == Forward(ls[i], X, eps[i].W, eps[i].b)
             ls1 == [ls EXCEPT ![i] = r.layer]
             us1 == IF r.sampled
                    THEN [us EXCEPT ![i] = [W |-> r.out.W, b |-> r.out.b]]
                    ELSE us
         IN  IF ~r.ok
             THEN [ok |-> FALSE, layers |-> ls1, used |-> us1, out |-> NoOut]
             ELSE ModelForward(ls1, us1, i + 1, r.out, eps)

IsBayesian(l) == l.kind = "ProbabilisticDense"

\* log_likelihood(true, pred), the function the caller supplies.
LogLikelihood(true, pred) == [true |-> true, pred |-> pred]
NoLoss == [data |-> LogLikelihood(0, 0), kl |-> <<>>]

\* One sampled tensor's contribution: log q(sample | mu, softplus(rho))
\* minus log p(sample | 0, prior sigma), reduced over the entries.
KLTerm(i, sample, mu, rho) ==
    [layer |-> i, role |-> mu.role, sample |-> sample, mu |-> mu.val,
     sigma |-> Softplus(rho.val)]

\* Reading layer.W and layer.b raises when forward never stored them; the
\* log-density of the sample under (mu, sigma) needs shapes that broadcast.
LayerLossRaises(l) ==
    \/ ~l.W.def \/ ~l.b.def \/ ~l.built
    \/ ~Broadcastable(l.W.shape, l.W_mu.shape)
    \/ ~Broadcastable(l.b.shape, l.b_mu.shape)

\* Variant: complexity terms taken from every layer, Bayesian or not.
RECURSIVE KLTerms_AllLayers(_, _)
KLTerms_AllLayers(ls, i) ==
    IF i > Len(ls) THEN <<>>
    ELSE << KLTerm(i, ls[i].W, ls[i].W_mu, ls[i].W_rho),
            KLTerm(i, ls[i].b, ls[i].b_mu, ls[i].b_rho) >>
         \o KLTerms_AllLayers(ls, i + 1)
RECURSIVE KLTerms(_, _)
KLTerms(ls, i) ==
    IF i > Len(ls) THEN <<>>
    ELSE (IF IsBayesian(ls[i])
          THEN << KLTerm(i, ls[i].W, ls[i].W_mu, ls[i].W_rho),
                  KLTerm(i, ls[i].b, ls[i].b_mu, ls[i].b_rho) >>
          ELSE <<>>) \o KLTerms(ls, i + 1)

\* variational_loss(true, pred, model, log_likelihood): the data term plus
\* the complexity term summed over the Bayesian layers.  It reads the
\* layers and writes nothing.
VariationalLoss(ls, true, pred) ==
    IF \E i \in DOMAIN ls : IsBayesian(ls[i]) /\ LayerLossRaises(ls[i])
    THEN [ok |-> FALSE, loss |-> NoLoss]
    ELSE [ok |-> TRUE,
          loss |-> [data |-> LogLikelihood(true, pred), kl |-> KLTerms(ls, 1)]]

\* ------------------------------------------------------------- Recurrent
NoState == [set |-> FALSE, h |-> <<>>]

\* Recurrent.__init__(units, length, stateful, input_dim)
RecNew(stateful, built) ==
    [stateful |-> stateful, built |-> built, states |-> NoState]

\* Recurrent.build
RecBuild(r) == [r EXCEPT !.built = TRUE]

\* Recurrent.clear_states
ClearStates(r) == [r EXCEPT !.states = NoState]

\* torch.nn.RNN.forward(X, h0): the final hidden state is a function of the
\* state it starts from and of the input; h0 absent starts from no state.
RNNStates(x, h0) == [set |-> TRUE, h |-> Append(h0.h, x)]

\* The state Recurrent.forward hands to the underlying layer.
\* Variant: the stored state fed whether or not the layer is stateful.
FedState_Always(r) == r.states
FedState(r) == IF r.stateful /\ r.states.set THEN r.states ELSE NoState

\* Recurrent.forward(X)
RecForward(r, x) ==
    IF ~r.built
    THEN \* self.layer: no such attribute
         [ok |-> FALSE, rec |-> r, fed |-> NoState, outputs |-> <<>>]
    ELSE LET h0 == FedState(r)
             hn == RNNStates(x, h0)
         IN  [ok |-> TRUE, rec |-> [r EXCEPT !.states = hn], fed |-> h0,
              outputs |-> hn.h]

\* ================================================================ state
VARIABLES
    layers,   \* the Model's layers, in order
    used,     \* per layer, the samples W, b its most recent forward computed
    ret,      \* the last call on a layer or on the Model, and its outcome
    rec,      \* a Recurrent layer
    rret      \* the last call on the Recurrent layer, and its outcome

vars == <<layers, used, ret, rec, rret>>

InputDims == {NoneDim} \cup {IntDim(n) : n \in 0..MaxDim}
BuildDims == {NoneDim, FloatDim} \cup {IntDim(n) : n \in 1..MaxDim}
XVals == {1, 2}
LabelVals == {0, 1}

Ret(op, i, ok) ==
    [op |-> op, i |-> i, ok |-> ok, d |-> NoneDim, X |-> <<>>, out |-> NoOut,
     params |-> <<>>, args |-> <<>>, loss |-> NoLoss]
RRet(op, ok) ==
    [op |-> op, ok |-> ok, before |-> NoState, fed |-> NoState, outputs |-> <<>>]

RecIdle == rec = RecNew(FALSE, FALSE) /\ rret = RRet("new", TRUE)
ModelIdle == layers = <<>> /\ used = <<>> /\ ret = Ret("new", 0, TRUE)

\* ------------------------------------------------------ a layer on its own
\* One ProbabilisticDense(units, input_dim=d), d None or an int.
Init ==
    /\ \E u \in 1..MaxUnits, d \in InputDims, v \in ParamVals :
           layers = << PDNew(u, d, v) >>
    /\ used = << NoUse >>
    /\ ret = Ret("new", 0, TRUE)
    /\ RecIdle

\* layer.build(d)
DoBuild(i) ==
    \E d \in BuildDims, v \in ParamVals :
        LET r == Build(layers[i], d, v)
        IN  /\ layers' = [layers EXCEPT ![i] = r.layer]
            /\ ret' = [Ret("build", i, r.ok) EXCEPT !.d = d]
            /\ UNCHANGED <<used, rec, rret>>

\* layer.forward(X), X of shape [N, k] with N in Ns
DoForward(i, Ns) ==
    \E N \in Ns, k \in 1..MaxDim, e \in EpsPairs :
        LET r == Forward(layers[i], Input(<<N, k>>), e.W, e.b)
        IN  /\ layers' = [layers EXCEPT ![i] = r.layer]
            /\ used' = IF r.sampled
                       THEN [used EXCEPT ![i] = [W |-> r.out.W, b |-> r.out.b]]
                       ELSE used
            /\ ret' = [Ret("forward", i, r.ok) EXCEPT !.X = <<N, k>>, !.out = r.out]
            /\ UNCHANGED <<rec, rret>>

\* layer.params
DoParams(i) ==
    LET r == Params(layers[i])
    IN  /\ ret' = [Ret("params", i, r.ok) EXCEPT !.params = r.params]
        /\ UNCHANGED <<layers, used, rec, rret>>

\* The external optimizer steps the tensors that params exposed, in place.
OptimizerStep(i) ==
    /\ IsBayesian(layers[i]) /\ layers[i].built
    /\ \E v \in ParamVals :
           layers' = [layers EXCEPT ![i].W_mu.val = v.W_mu, ![i].W_rho.val = v.W_rho,
                                    ![i].b_mu.val = v.b_mu, ![i].b_rho.val = v.b_rho]
    /\ ret' = Ret("optimizer", i, TRUE)
    /\ UNCHANGED <<used, rec, rret>>

\* variational_loss(true, pred, model=..., log_likelihood=...)
DoLoss ==
    \E t \in LabelVals, p \in LabelVals :
        LET r == VariationalLoss(layers, t, p)
        IN  /\ ret' = [Ret("variational_loss", 0, r.ok) EXCEPT
                          !.args = <<t, p>>, !.loss = r.loss]
            /\ UNCHANGED <<layers, used, rec, rret>>

\* model.forward(X), X of shape [N, k] with N in Ns
DoModelForward(Ns) ==
    \E N \in Ns, k \in 1..MaxDim,
       eps \in [DOMAIN layers -> EpsPairs] :
        LET r == ModelForward(layers, used, 1, Input(<<N, k>>), eps)
        IN  /\ layers' = r.layers
            /\ used' = r.used
            /\ ret' = [Ret("Model.forward", 0, r.ok) EXCEPT !.X = <<N, k>>, !.out = r.out]
            /\ UNCHANGED <<rec, rret>>

Next ==
    \/ \E i \in DOMAIN layers : DoBuild(i)
    \/ \E i \in DOMAIN layers : DoForward(i, 1..MaxBatch)
    \/ \E i \in DOMAIN layers : DoParams(i)
    \/ \E i \in DOMAIN layers : OptimizerStep(i)
    \/ DoLoss

Spec == Init /\ [][Next]_vars

\* ---------------------------------------------------------------- a Model
\* Model(l1, ..., ln), n <= MaxLayers: the first layer constructed with
\* input_dim d (None or an int), the others without.  The calls on it take
\* batches of one row.
ModelInit ==
    /\ \E n \in 0..MaxLayers :
         \E kinds \in [1..n -> {"ProbabilisticDense", "Layer"}],
            u \in 1..MaxUnits, d \in {NoneDim} \cup {IntDim(m) : m \in 1..MaxDim},
            v \in {w \in ParamVals : w.W_mu = 0} :
           layers = ModelNew(
               [i \in 1..n |->
                   IF kinds[i] = "ProbabilisticDense"
                   THEN PDNew(u, IF i = 1 THEN d ELSE NoneDim, v)
                   ELSE LayerNew(IF i = 1 THEN d ELSE NoneDim)],
               [i \in 1..n |-> v])
    /\ used = [i \in DOMAIN layers |-> NoUse]
    /\ ret = Ret("new", 0, TRUE)
    /\ RecIdle

ModelNext ==
    \/ DoModelForward({1})
    \/ \E i \in DOMAIN layers : DoForward(i, {1})
    \/ DoLoss

SpecModel == ModelInit /\ [][ModelNext]_vars

\* -------------------------------------------------------- a Recurrent layer
RecInit ==
    /\ \E st \in BOOLEAN, bu \in BOOLEAN : rec = RecNew(st, bu)
    /\ rret = RRet("new", TRUE)
    /\ ModelIdle

DoRecBuild ==
    /\ rec' = RecBuild(rec)
    /\ rret' = [RRet("build", TRUE) EXCEPT !.before = rec.states]
    /\ UNCHANGED <<layers, used, ret>>

DoRecForward ==
    /\ Len(rec.states.h) < MaxHist
    /\ \E x \in XVals :
         LET r == RecForward(rec, x)
         IN  /\ rec' = r.rec
             /\ rret' = [RRet("forward", r.ok) EXCEPT
                            !.before = rec.states, !.fed = r.fed,
                            !.outputs = r.outputs]
    /\ UNCHANGED <<layers, used, ret>>

DoClearStates ==
    /\ rec' = ClearStates(rec)
    /\ rret' = [RRet("clear_states", TRUE) EXCEPT !.before = rec.states]
    /\ UNCHANGED <<layers, used, ret>>

RecNext == DoRecBuild \/ DoRecForward \/ DoClearStates

SpecRecurrent == RecInit /\ [][RecNext]_vars

\* =============================================================== claims
BayesianIdx == {i \in DOMAIN layers : IsBayesian(layers[i])}
ParamsOf(l) == <<l.built, l.W_mu, l.W_rho, l.b_mu, l.b_rho>>

\* C1 (SpecModel): while some Bayesian layer of the Model has never had a
\* forward compute its samples, the variational loss raises instead of
\* returning a value; in the state a completed Model.forward leaves, the
\* loss returns a scalar for every (true, pred).
C1_LossAfterForward ==
    /\ (ret.op = "variational_loss" /\ \E i \in BayesianIdx : ~used[i].W.def)
          => ~ret.ok
    /\ \A t \in LabelVals, p \in LabelVals :
          LET r == VariationalLoss(layers, t, p)
          IN  /\ (\E i \in BayesianIdx : ~used[i].W.def) => ~r.ok
              /\ (ret.op = "Model.forward" /\ ret.ok) => r.ok
    /\ (ret.op = "Model.forward" /\ ret.ok)
          => \A i \in BayesianIdx : used[i].W.def /\ used[i].b.def

C1_Witness ==
    /\ ret.op = "variational_loss" /\ ret.ok
    /\ Len(layers) = 2 /\ BayesianIdx = {1, 2}
    /\ Len(ret.loss.kl) = 4

\* C2 (Spec): the retained W and b of a ProbabilisticDense layer are the
\* samples its most recent sampling forward computed and used, one weight
\* sample mu + softplus(rho) * eps of shape [input width, units] and one bias
\* sample of shape [units]; a loss computation leaves them as they are.
C2_RetainedIsLastUsed ==
    \A i \in BayesianIdx :
        /\ layers[i].W = used[i].W
        /\ layers[i].b = used[i].b
        /\ layers[i].W.def = layers[i].b.def
        /\ layers[i].W.def =>
              /\ layers[i].W.mu \in MuVals /\ layers[i].W.eps \in EpsVals
              /\ layers[i].W.sigma = Softplus(layers[i].W.sigma.of)
              /\ layers[i].b.mu \in MuVals /\ layers[i].b.eps \in EpsVals
              /\ layers[i].b.sigma = Softplus(layers[i].b.sigma.of)
        /\ (ret.op = "forward" /\ ret.i = i /\ ret.out.W.def) =>
              layers[i].W = ret.out.W /\ layers[i].b = ret.out.b

C2_Witness ==
    /\ ret.op = "variational_loss" /\ ret.ok
    /\ layers[1].W.def /\ layers[1].W.mu = 1
    /\ layers[1].W_mu.val = 0

\* C3 (Spec): forward on a ProbabilisticDense layer that has no parameters
\* yet raises, returns no output and stores no sample; build with an int
\* never raises.
C3_ForwardBeforeBuildFails ==
    /\ \A i \in BayesianIdx :
          ~layers[i].built =>
              /\ ~layers[i].W.def /\ ~layers[i].b.def
              /\ (ret.op = "forward" /\ ret.i = i) =>
                     ~ret.ok /\ ret.out = NoOut
    /\ (ret.op = "build" /\ IsInt(ret.d)) => ret.ok

C3_Witness ==
    /\ ret.op = "forward" /\ ~ret.ok
    /\ ~layers[1].built /\ layers[1].input_dim = NoneDim

\* C4 (Spec), as claimed: once a layer has its four parameters, no step other
\* than the optimizer's replaces or changes them.
C4_ParamsPersist ==
    [][\A i \in DOMAIN layers :
          (layers[i].built /\ ret'.op # "optimizer")
              => ParamsOf(layers'[i]) = ParamsOf(layers[i])]_vars

\* C5 (Spec): params raises on a layer without parameters and otherwise
\* returns exactly (W_mu, W_rho, b_mu, b_rho) in that order, the weights of
\* shape [input_dim, units] and the biases of shape [units], before and
\* after forward.
C5_ParamsAccessor ==
    (ret.op = "params" /\ ret.i \in BayesianIdx) =>
        LET l == layers[ret.i]
        IN  /\ ret.ok <=> l.built
            /\ ret.ok =>
                  /\ Len(ret.params) = 4
                  /\ ret.params = <<l.W_mu, l.W_rho, l.b_mu, l.b_rho>>
                  /\ [k \in 1..4 |-> ret.params[k].role]
                        = <<"W_mu", "W_rho", "b_mu", "b_rho">>
                  /\ IsInt(l.input_dim) =>
                        /\ ret.params[1].shape = <<l.input_dim.n, l.units>>
                        /\ ret.params[2].shape = <<l.input_dim.n, l.units>>
                  /\ ret.params[3].shape = <<l.units>>
                  /\ ret.params[4].shape = <<l.units>>

C5_Witness ==
    /\ ret.op = "params" /\ ret.ok
    /\ layers[1].W.def /\ layers[1].input_dim = IntDim(2)

C7_NoBayesianLayers ==
    (ret.op = "variational_loss" /\ BayesianIdx = {}) =>
        /\ ret.ok
        /\ ret.loss.kl = <<>>
        /\ ret.loss.data = LogLikelihood(ret.args[1], ret.args[2])

C7_Witness ==
    /\ ret.op = "variational_loss" /\ ret.ok
    /\ Len(layers) = 2 /\ BayesianIdx = {}
    /\ ret.args = <<1, 0>>

\* C8 (Spec): on a built layer, forward of a batch [N, input_dim] returns a
\* tensor of shape [N, units], and retains W of shape [input_dim, units] and
\* b of shape [units].
C8_ForwardShape ==
    (ret.op = "forward" /\ ret.i \in BayesianIdx) =>
        LET l == layers[ret.i]
        IN  (l.built /\ IsInt(l.input_dim) /\ ret.X[2] = l.input_dim.n) =>
                /\ ret.ok
                /\ ret.out.shape = <<ret.X[1], l.units>>
                /\ l.W.shape = <<l.input_dim.n, l.units>>
                /\ l.b.shape = <<l.units>>

C8_Witness ==
    /\ ret.op = "forward" /\ ret.ok
    /\ layers[1].input_dim = IntDim(2) /\ layers[1].units = 1
    /\ ret.X = <<2, 2>> /\ ret.out.shape = <<2, 1>>

\* C9 (Spec), as claimed: the scale softplus(rho) that forward uses for the
\* weight and for the bias sample is strictly positive.
C9_SigmaPositive ==
    (ret.op = "forward" /\ ret.out.W.def) =>
        /\ ret.out.W.sigma.cls # "zero"
        /\ ret.out.b.sigma.cls # "zero"

\* C10 (SpecRecurrent): a forward that returns fed the stored state to the
\* underlying layer exactly when the layer is stateful and a state was
\* stored, and no state otherwise; it leaves the state that call produced
\* from what it fed; clear_states leaves no state.
C10_RecurrentState ==
    /\ (rret.op = "forward" /\ rret.ok) =>
          /\ rret.fed = (IF rec.stateful /\ rret.before.set
                          THEN rret.before ELSE NoState)
          /\ rec.states.set
          /\ rec.states.h = rret.outputs
          /\ Len(rec.states.h) = Len(rret.fed.h) + 1
          /\ SubSeq(rec.states.h, 1, Len(rret.fed.h)) = rret.fed.h
    /\ (rret.op = "forward" /\ ~rret.ok) => rec.states = rret.before
    /\ rret.op = "clear_states" => rec.states = NoState
    /\ rret.op = "new" => rec.states = NoState

C10_Witness ==
    /\ rret.op = "forward" /\ rret.ok
    /\ rec.stateful /\ rret.fed.set /\ Len(rec.states.h) = 3

====
